---- MODULE Spec2Model ----
(***************************************************************************)
(* The JITR registration handler (lambda/IoTCertificateValidator/handler.py)*)
(* as a state machine.  One run of lambda_handler is one process; a step   *)
(* of a run is one external call (AWS IoT, DynamoDB, STS) together with    *)
(* the local code that follows it up to the next external call or the      *)
(* return.  The external services are the shared state.                    *)
(***************************************************************************)
EXTENDS Integers, Sequences, FiniteSets, TLC

\* ---------------------------------------------------------------- bounds
\* Number of handler invocations (they may overlap in any way).
NumRuns == 2
\* Number of transport/service failures injected over a behaviour.
MaxFaults == 2

Runs == 1..NumRuns

None == "None"

\* ------------------------------------------------------- the environment
\* Registered certificates: the PEM is modelled by what load_certificate
\* and get_subject().get_components() yield for it.
\*   c1  serialNumber and CN both present   (identity dev-7)
\*   c2  CN only, the same identity dev-7 as c1
\*   c3  serialNumber only                  (identity dev-42)
\*   c4  a subject with neither serialNumber nor CN
\*   c5  bytes that are no PEM certificate
CertificatePem ==
    [c1 |-> [wellFormed |-> TRUE,
             subject |-> ("serialNumber" :> "dev-7" @@ "CN" :> "gateway")],
     c2 |-> [wellFormed |-> TRUE, subject |-> ("CN" :> "dev-7")],
     c3 |-> [wellFormed |-> TRUE, subject |-> ("serialNumber" :> "dev-42")],
     c4 |-> [wellFormed |-> TRUE, subject |-> ("O" :> "acme")],
     c5 |-> [wellFormed |-> FALSE, subject |-> <<>>]]

CertIds == DOMAIN CertificatePem

\* Events the runtime delivers: a registered certificate id, an id the
\* certificate service does not know, or an event without certificateId.
UnknownCert == "c9"
Events == [certificateId : CertIds \cup {UnknownCert}] \cup {[other |-> "x"]}

\* The DynamoDB whitelist table (DEVICE_WHITELIST_TABLE): its keys, and the
\* keys of a table that lists both device identities.
Whitelist == {"dev-7"}
FleetWhitelist == {"dev-7", "dev-42"}

\* os.environ['AWS_REGION'] and sts get_caller_identity()['Account'].
Region == "eu"
AccountId == "123"

CertificateArn(c) == "arn:cert/" \o c

\* --------------------------------------------------------- pure functions
Ok(v) == [ok |-> TRUE, value |-> v]
Raise(m) == [ok |-> FALSE, error |-> m]

\* Faulty variant: the CN takes precedence over the serialNumber.
MutExtractCNFirst(cert_pem) ==
    IF ~cert_pem.wellFormed THEN Raise("crypto.Error")
    ELSE LET components == cert_pem.subject IN
         IF "CN" \in DOMAIN components THEN Ok(components["CN"])
         ELSE IF "serialNumber" \in DOMAIN components
              THEN Ok(components["serialNumber"])
         ELSE Raise("No device ID (serialNumber or CN) found in certificate subject")

extract_device_id_from_certificate(cert_pem) ==
    IF ~cert_pem.wellFormed THEN Raise("crypto.Error")
    ELSE LET components == cert_pem.subject IN
         IF "serialNumber" \in DOMAIN components
         THEN Ok(components["serialNumber"])
         ELSE IF "CN" \in DOMAIN components THEN Ok(components["CN"])
         ELSE Raise("No device ID (serialNumber or CN) found in certificate subject")

PolicyName(device_id) == "DevicePolicy_" \o device_id
ThingName(device_id) == "Device_" \o device_id

\* Faulty variant: the publish/receive statement covers every device's topics.
MutPolicyDocumentAllTopics(region, account_id, device_id) ==
    LET arn == "arn:aws:iot:" \o region \o ":" \o account_id \o ":" IN
    << [Effect |-> "Allow", Action |-> {"iot:Connect"},
        Resource |-> {arn \o "client/" \o device_id}],
       [Effect |-> "Allow", Action |-> {"iot:Publish", "iot:Receive"},
        Resource |-> {arn \o "topic/devices/*"}],
       [Effect |-> "Allow", Action |-> {"iot:Subscribe"},
        Resource |-> {arn \o "topicfilter/devices/" \o device_id \o "/*"}] >>

PolicyDocument(region, account_id, device_id) ==
    LET arn == "arn:aws:iot:" \o region \o ":" \o account_id \o ":" IN
    << [Effect |-> "Allow", Action |-> {"iot:Connect"},
        Resource |-> {arn \o "client/" \o device_id}],
       [Effect |-> "Allow", Action |-> {"iot:Publish", "iot:Receive"},
        Resource |-> {arn \o "topic/devices/" \o device_id \o "/*"}],
       [Effect |-> "Allow", Action |-> {"iot:Subscribe"},
        Resource |-> {arn \o "topicfilter/devices/" \o device_id \o "/*"}] >>

\* registration_date: utcnow() at one-second resolution.
Clock == {"T1", "T2"}
ThingAttributes(now) == [source |-> "jitr_registration", registration_date |-> now]

Response(code, text) == [statusCode |-> code, body |-> text]
RegisteredBody(device_id) == "Device " \o device_id \o " successfully registered"
\* Faulty variant: the denied body does not name the device.
MutDeniedBodyNoId(device_id) == "Device is not authorized"
DeniedBody(device_id) == "Device " \o device_id \o " is not authorized"
ErrorBody(msg) == "Error: " \o msg

\* ------------------------------------------------------------------ state
VARIABLES
    certStatus,       \* certificate id -> status, held by AWS IoT
    policies,         \* policy name -> policy document, held by AWS IoT
    policyTargets,    \* {<<policy name, certificate arn>>}: attach_policy
    things,           \* thing name -> attributes, held by AWS IoT
    thingPrincipals,  \* {<<thing name, certificate arn>>}
    pc,               \* run -> the external call it issues next
    event,            \* run -> the event it was invoked with
    device_id,        \* run -> local device_id
    e,                \* run -> str(e) of the exception the except clause caught
    result,           \* run -> the returned response, or the raised exception
    calls,            \* run -> the external calls it has issued, in order
    faults,           \* failures injected so far
    whitelist         \* the keys of the whitelist table (the handler only reads it)

service == <<certStatus, policies, policyTargets, things, thingPrincipals>>
locals == <<pc, event, device_id, e, result>>
vars == <<certStatus, policies, policyTargets, things, thingPrincipals,
          pc, event, device_id, e, result, calls, faults, whitelist>>

certificate_id(r) == event[r]["certificateId"]
\* Faulty variant: the credential reference built from the device identity.
MutCertificateArnShared(r) == CertificateArn(device_id[r])
certificate_arn(r) == CertificateArn(certificate_id(r))

InitTable(table) ==
    /\ whitelist = table
    /\ certStatus = [c \in CertIds |-> "PENDING_ACTIVATION"]
    /\ policies = <<>>
    /\ policyTargets = {}
    /\ things = <<>>
    /\ thingPrincipals = {}
    /\ pc = [r \in Runs |-> "idle"]
    /\ event = [r \in Runs |-> None]
    /\ device_id = [r \in Runs |-> None]
    /\ e = [r \in Runs |-> None]
    /\ result = [r \in Runs |-> None]
    /\ calls = [r \in Runs |-> <<>>]
    /\ faults = 0
Init == InitTable(Whitelist)

\* ------------------------------------------------- the external services
\* What a call can answer: "ok", a service-specific error, or (while the
\* fault budget lasts) a transport/service failure "fault".
Answers(normal) == {normal} \cup (IF faults < MaxFaults THEN {"fault"} ELSE {})

ErrorText(op, out) ==
    CASE out = "fault" -> "ServiceUnavailable: " \o op
      [] out = "notfound" -> "ResourceNotFoundException: " \o op
      [] out = "conflict" -> "ResourceAlreadyExistsException: " \o op
      [] OTHER -> out

\* Run r issues a call: none of the handler's calls writes the whitelist
\* table (get_item is its only use of device_table).
Called(r, op, arg, out) ==
    /\ calls' = [calls EXCEPT ![r] = Append(@, [op |-> op, arg |-> arg, out |-> out])]
    /\ faults' = IF out = "fault" THEN faults + 1 ELSE faults
    /\ whitelist' = whitelist

\* update_certificate: sets the status of a known certificate.
UpdateCertificateAnswer(c) == IF c \in CertIds THEN "ok" ELSE "notfound"
UpdateCertificate(c, newStatus, out) ==
    certStatus' = IF out = "ok" THEN [certStatus EXCEPT ![c] = newStatus]
                  ELSE certStatus

\* create_policy: a name that exists is rejected (ResourceAlreadyExists).
CreatePolicyAnswer(name) == IF name \in DOMAIN policies THEN "conflict" ELSE "ok"

\* create_thing: a name that exists with other attributes is rejected; the
\* same name with the same attributes is accepted and changes nothing.
CreateThingAnswer(name, attrs) ==
    IF name \in DOMAIN things /\ things[name] # attrs THEN "conflict" ELSE "ok"

\* ------------------------------------------------------- lambda_handler
\* The except clause of lambda_handler: remember str(e), then revoke.
Caught(r, msg) ==
    /\ pc' = [pc EXCEPT ![r] = "except"]
    /\ e' = [e EXCEPT ![r] = msg]

Goto(r, label) ==
    /\ pc' = [pc EXCEPT ![r] = label]
    /\ e' = e

Return(r, response) ==
    /\ pc' = [pc EXCEPT ![r] = "done"]
    /\ result' = [result EXCEPT ![r] = response]

\* Line 26 is outside the try: a missing key raises KeyError to the runtime.
\* evs: the events the runtime may deliver.
Invoke(r, evs) ==
    /\ pc[r] = "idle"
    /\ \E ev \in evs :
        /\ event' = [event EXCEPT ![r] = ev]
        /\ IF "certificateId" \in DOMAIN ev
           THEN /\ pc' = [pc EXCEPT ![r] = "describe_certificate"]
                /\ result' = result
           ELSE Return(r, [raised |-> "KeyError: 'certificateId'"])
    /\ UNCHANGED <<service, device_id, e, calls, faults, whitelist>>

\* Lines 31-40: fetch the certificate, then extract the device id.
DescribeCertificate(r) ==
    /\ pc[r] = "describe_certificate"
    /\ LET c == certificate_id(r) IN
       \E out \in Answers(IF c \in CertIds THEN "ok" ELSE "notfound") :
        /\ Called(r, "describe_certificate", c, out)
        /\ IF out = "ok"
           THEN LET x == extract_device_id_from_certificate(CertificatePem[c]) IN
                IF x.ok
                THEN /\ device_id' = [device_id EXCEPT ![r] = x.value]
                     /\ Goto(r, "get_item")
                ELSE /\ device_id' = device_id
                     /\ Caught(r, x.error)
           ELSE /\ device_id' = device_id
                /\ Caught(r, ErrorText("describe_certificate", out))
    /\ UNCHANGED <<service, event, result>>

\* Lines 50 and 70: the branch on 'Item' in device_response.
\* Faulty variants: the lookup result ignored, or the branches swapped.
MutBranchAlwaysAllow(found) == "update_certificate_active"
MutBranchInverted(found) ==
    IF found THEN "update_certificate_revoked" ELSE "update_certificate_active"
Branch(found) ==
    IF found THEN "update_certificate_active" ELSE "update_certificate_revoked"

\* Lines 43-50: the whitelist lookup.
\* Faulty variant: a failed lookup is taken for "no Item".
MutGetItemErrorAsDenied(r) ==
    /\ pc[r] = "get_item"
    /\ \E out \in Answers("ok") :
        /\ Called(r, "get_item", device_id[r], out)
        /\ Goto(r, Branch(out = "ok" /\ device_id[r] \in whitelist))
    /\ UNCHANGED <<service, event, device_id, result>>
GetItem(r) ==
    /\ pc[r] = "get_item"
    /\ \E out \in Answers("ok") :
        /\ Called(r, "get_item", device_id[r], out)
        /\ IF out = "ok"
           THEN Goto(r, Branch(device_id[r] \in whitelist))
           ELSE Caught(r, ErrorText("get_item", out))
    /\ UNCHANGED <<service, event, device_id, result>>

\* Lines 52-55: activate the certificate, then enter create_and_attach_policy.
UpdateCertificateActive(r) ==
    /\ pc[r] = "update_certificate_active"
    /\ \E out \in Answers(UpdateCertificateAnswer(certificate_id(r))) :
        /\ Called(r, "update_certificate", "ACTIVE", out)
        /\ UpdateCertificate(certificate_id(r), "ACTIVE", out)
        /\ IF out = "ok"
           THEN Goto(r, "get_caller_identity")
           ELSE Caught(r, ErrorText("update_certificate", out))
    /\ UNCHANGED <<policies, policyTargets, things, thingPrincipals,
                   event, device_id, result>>

\* Lines 72-81: the denied branch.
UpdateCertificateRevoked(r) ==
    /\ pc[r] = "update_certificate_revoked"
    /\ \E out \in Answers(UpdateCertificateAnswer(certificate_id(r))) :
        /\ Called(r, "update_certificate", "REVOKED", out)
        /\ UpdateCertificate(certificate_id(r), "REVOKED", out)
        /\ IF out = "ok"
           THEN /\ Return(r, Response(403, DeniedBody(device_id[r])))
                /\ e' = e
           ELSE /\ Caught(r, ErrorText("update_certificate", out))
                /\ result' = result
    /\ UNCHANGED <<policies, policyTargets, things, thingPrincipals,
                   event, device_id>>

\* Lines 59 and 120-121: create_and_attach_policy starts by asking STS for
\* the account id (inside lambda_handler's try, before the function's own).
\* Faulty variant: the STS call made outside lambda_handler's try.
MutGetCallerIdentityUncaught(r) ==
    /\ pc[r] = "get_caller_identity"
    /\ \E out \in Answers("ok") :
        /\ Called(r, "get_caller_identity", None, out)
        /\ IF out = "ok"
           THEN Goto(r, "get_policy") /\ result' = result
           ELSE Return(r, [raised |-> ErrorText("get_caller_identity", out)]) /\ e' = e
    /\ UNCHANGED <<service, event, device_id>>
GetCallerIdentity(r) ==
    /\ pc[r] = "get_caller_identity"
    /\ \E out \in Answers("ok") :
        /\ Called(r, "get_caller_identity", None, out)
        /\ IF out = "ok"
           THEN Goto(r, "get_policy")
           ELSE Caught(r, ErrorText("get_caller_identity", out))
    /\ UNCHANGED <<service, event, device_id, result>>

\* Lines 125-128: probe the policy; only ResourceNotFoundException leads to
\* create_policy, any other exception is re-raised (lines 161-163).
\* Faulty variant: create_policy without regard to the probe's answer.
MutGetPolicyAlwaysCreate(r) ==
    /\ pc[r] = "get_policy"
    /\ LET policy_name == PolicyName(device_id[r]) IN
       \E out \in Answers(IF policy_name \in DOMAIN policies THEN "ok" ELSE "notfound") :
        /\ Called(r, "get_policy", policy_name, out)
        /\ IF out = "fault" THEN Caught(r, ErrorText("get_policy", out))
           ELSE Goto(r, "create_policy")
    /\ UNCHANGED <<service, event, device_id, result>>
GetPolicy(r) ==
    /\ pc[r] = "get_policy"
    /\ LET policy_name == PolicyName(device_id[r]) IN
       \E out \in Answers(IF policy_name \in DOMAIN policies THEN "ok" ELSE "notfound") :
        /\ Called(r, "get_policy", policy_name, out)
        /\ CASE out = "ok" -> Goto(r, "attach_policy")
             [] out = "notfound" -> Goto(r, "create_policy")
             [] OTHER -> Caught(r, ErrorText("get_policy", out))
    /\ UNCHANGED <<service, event, device_id, result>>

\* Lines 129-154.
CreatePolicy(r) ==
    /\ pc[r] = "create_policy"
    /\ LET policy_name == PolicyName(device_id[r]) IN
       \E out \in Answers(CreatePolicyAnswer(policy_name)) :
        /\ Called(r, "create_policy", policy_name, out)
        /\ IF out = "ok"
           THEN /\ policies' = policies @@
                      (policy_name :> PolicyDocument(Region, AccountId, device_id[r]))
                /\ Goto(r, "attach_policy")
           ELSE /\ policies' = policies
                /\ Caught(r, ErrorText("create_policy", out))
    /\ UNCHANGED <<certStatus, policyTargets, things, thingPrincipals,
                   event, device_id, result>>

\* Lines 156-160, then line 63 enters register_thing.
\* Faulty variant: a failed attach_policy is logged and the run goes on.
MutAttachPolicySwallow(r) ==
    /\ pc[r] = "attach_policy"
    /\ LET policy_name == PolicyName(device_id[r]) IN
       \E out \in Answers(IF policy_name \in DOMAIN policies THEN "ok" ELSE "notfound") :
        /\ Called(r, "attach_policy", policy_name, out)
        /\ policyTargets' = IF out = "ok"
                            THEN policyTargets \cup {<<policy_name, certificate_arn(r)>>}
                            ELSE policyTargets
        /\ Goto(r, "describe_thing")
    /\ UNCHANGED <<certStatus, policies, things, thingPrincipals,
                   event, device_id, result>>
AttachPolicy(r) ==
    /\ pc[r] = "attach_policy"
    /\ LET policy_name == PolicyName(device_id[r]) IN
       \E out \in Answers(IF policy_name \in DOMAIN policies THEN "ok" ELSE "notfound") :
        /\ Called(r, "attach_policy", policy_name, out)
        /\ IF out = "ok"
           THEN /\ policyTargets' = policyTargets \cup {<<policy_name, certificate_arn(r)>>}
                /\ Goto(r, "describe_thing")
           ELSE /\ policyTargets' = policyTargets
                /\ Caught(r, ErrorText("attach_policy", out))
    /\ UNCHANGED <<certStatus, policies, things, thingPrincipals,
                   event, device_id, result>>

\* Lines 168-171.
\* Faulty variant: create_thing follows whatever the probe answered.
MutDescribeThingAlwaysCreate(r) ==
    /\ pc[r] = "describe_thing"
    /\ LET thing_name == ThingName(device_id[r]) IN
       \E out \in Answers(IF thing_name \in DOMAIN things THEN "ok" ELSE "notfound") :
        /\ Called(r, "describe_thing", thing_name, out)
        /\ CASE out \in {"ok", "notfound"} -> Goto(r, "create_thing")
             [] OTHER -> Caught(r, ErrorText("describe_thing", out))
    /\ UNCHANGED <<service, event, device_id, result>>
DescribeThing(r) ==
    /\ pc[r] = "describe_thing"
    /\ LET thing_name == ThingName(device_id[r]) IN
       \E out \in Answers(IF thing_name \in DOMAIN things THEN "ok" ELSE "notfound") :
        /\ Called(r, "describe_thing", thing_name, out)
        /\ CASE out = "ok" -> Goto(r, "attach_thing_principal")
             [] out = "notfound" -> Goto(r, "create_thing")
             [] OTHER -> Caught(r, ErrorText("describe_thing", out))
    /\ UNCHANGED <<service, event, device_id, result>>

\* Lines 172-181.
CreateThing(r) ==
    /\ pc[r] = "create_thing"
    /\ LET thing_name == ThingName(device_id[r]) IN
       \E now \in Clock :
       \E out \in Answers(CreateThingAnswer(thing_name, ThingAttributes(now))) :
        /\ Called(r, "create_thing", thing_name, out)
        /\ IF out = "ok"
           THEN /\ things' = (thing_name :> ThingAttributes(now)) @@ things
                /\ Goto(r, "attach_thing_principal")
           ELSE /\ things' = things
                /\ Caught(r, ErrorText("create_thing", out))
    /\ UNCHANGED <<certStatus, policies, policyTargets, thingPrincipals,
                   event, device_id, result>>

\* Lines 183-187, then lines 65-69: the registered outcome.
AttachThingPrincipal(r) ==
    /\ pc[r] = "attach_thing_principal"
    /\ LET thing_name == ThingName(device_id[r]) IN
       \E out \in Answers(IF thing_name \in DOMAIN things THEN "ok" ELSE "notfound") :
        /\ Called(r, "attach_thing_principal", thing_name, out)
        /\ IF out = "ok"
           THEN /\ thingPrincipals' = thingPrincipals \cup {<<thing_name, certificate_arn(r)>>}
                /\ Return(r, Response(200, RegisteredBody(device_id[r])))
                /\ e' = e
           ELSE /\ thingPrincipals' = thingPrincipals
                /\ Caught(r, ErrorText("attach_thing_principal", out))
                /\ result' = result
    /\ UNCHANGED <<certStatus, policies, policyTargets, things, event, device_id>>

\* Lines 95-98: what the except clause returns; rev_out is the answer of its
\* own revoke call (rev_err is only logged).
\* Faulty variant: a failed revoke replaces the error that is reported.
MutExceptResponseMasked(msg, rev_out) ==
    Response(500, ErrorBody(IF rev_out = "ok" THEN msg
                            ELSE ErrorText("update_certificate", rev_out)))
ExceptResponse(msg, rev_out) == Response(500, ErrorBody(msg))

\* Lines 83-98: the except clause: best-effort revoke, then the error result.
ExceptRevoke(r) ==
    /\ pc[r] = "except"
    /\ \E out \in Answers(UpdateCertificateAnswer(certificate_id(r))) :
        /\ Called(r, "update_certificate", "REVOKED", out)
        /\ UpdateCertificate(certificate_id(r), "REVOKED", out)
        /\ Return(r, ExceptResponse(e[r], out))
    /\ UNCHANGED <<policies, policyTargets, things, thingPrincipals,
                   event, device_id, e>>

\* One external call of run r, with the local code up to the next one.
Step(r) ==
        \/ DescribeCertificate(r)
        \/ GetItem(r)
        \/ UpdateCertificateActive(r)
        \/ UpdateCertificateRevoked(r)
        \/ GetCallerIdentity(r)
        \/ GetPolicy(r)
        \/ CreatePolicy(r)
        \/ AttachPolicy(r)
        \/ DescribeThing(r)
        \/ CreateThing(r)
        \/ AttachThingPrincipal(r)
        \/ ExceptRevoke(r)

\* Any events, overlapping in any way.
Next == \E r \in Runs : Invoke(r, Events) \/ Step(r)
Spec == Init /\ [][Next]_vars

\* Registrations of single-certificate devices: every kind of event, each
\* device identity carried by one certificate (c2 shares c1's identity).
EventOf(c) == [certificateId |-> c]
JitrEvents == Events \ {EventOf("c2")}
NextJitr == \E r \in Runs : Invoke(r, JitrEvents) \/ Step(r)
SpecJitr == Init /\ [][NextJitr]_vars

\* Registrations delivered one after the other: a run starts only when no
\* other run is in flight, and the runs are numbered in the order they start.
NoneInFlight == \A q \in Runs : pc[q] \in {"idle", "done"}
NextSeq ==
    \E r \in Runs :
        \/ /\ NoneInFlight
           /\ \A q \in Runs : q < r => pc[q] = "done"
           /\ Invoke(r, Events)
        \/ Step(r)
SpecSeq == Init /\ [][NextSeq]_vars

\* A fleet of two devices, each with its own certificate; the table lists
\* both of them, or only the first.
FleetEvents == {EventOf("c1"), EventOf("c3")}
FleetTables == {FleetWhitelist, Whitelist}
InitFleet == \E table \in FleetTables : InitTable(table)
NextFleet == \E r \in Runs : Invoke(r, FleetEvents) \/ Step(r)
SpecFleet == InitFleet /\ [][NextFleet]_vars

\* Two certificates of one whitelisted identity (c1, c2) beside a
\* certificate of a device that is not whitelisted (c3).
SharedEvents == {EventOf("c1"), EventOf("c2"), EventOf("c3")}
NextShared == \E r \in Runs : Invoke(r, SharedEvents) \/ Step(r)
SpecShared == Init /\ [][NextShared]_vars

\* ------------------------------------------------ reading a run's history
Started(r) == pc[r] # "idle"
HasCertId(r) == Started(r) /\ "certificateId" \in DOMAIN event[r]
Known(r) == HasCertId(r) /\ certificate_id(r) \in CertIds
Done(r) == pc[r] = "done"
Returned(r, code) ==
    Done(r) /\ "statusCode" \in DOMAIN result[r] /\ result[r].statusCode = code
Escaped(r) == Done(r) /\ "raised" \in DOMAIN result[r]
ReturnsNow(r) == pc[r] # "done" /\ pc'[r] = "done"

Idx(r) == 1..Len(calls[r])
LastCall(r) == calls[r][Len(calls[r])]
IsCall(call, op, arg) == call.op = op /\ call.arg = arg
\* A probe answering not-found is the normal create-if-absent branch.
Failed(call) ==
    /\ call.out # "ok"
    /\ ~(call.op \in {"get_policy", "describe_thing"} /\ call.out = "notfound")
FailedAt(r) == {i \in Idx(r) : Failed(calls[r][i])}
NoFailure(r) == FailedAt(r) = {}
Min(S) == CHOOSE i \in S : \A j \in S : i <= j

\* The lookup of run r and its answer.
LookedUp(r) == \E i \in Idx(r) : calls[r][i].op = "get_item" /\ calls[r][i].out = "ok"
Found(r) ==
    \E i \in Idx(r) : /\ calls[r][i].op = "get_item" /\ calls[r][i].out = "ok"
                      /\ calls[r][i].arg \in whitelist
NotFound(r) == LookedUp(r) /\ ~Found(r)
LookupFailed(r) ==
    \E i \in Idx(r) : calls[r][i].op = "get_item" /\ calls[r][i].out # "ok"
IssuedActive(r) ==
    \E i \in Idx(r) : IsCall(calls[r][i], "update_certificate", "ACTIVE")

\* Identity extraction failed in run r: the certificate was fetched and its
\* subject yields no identity.
ExtractionFailed(r) ==
    /\ Known(r)
    /\ Len(calls[r]) >= 1 /\ calls[r][1].out = "ok"
    /\ ~extract_device_id_from_certificate(CertificatePem[certificate_id(r)]).ok
Failing(r) == HasCertId(r) /\ (ExtractionFailed(r) \/ ~NoFailure(r))
\* str(e) of the first failure of run r.
OriginalError(r) ==
    IF ExtractionFailed(r)
    THEN extract_device_id_from_certificate(CertificatePem[certificate_id(r)]).error
    ELSE LET i == Min(FailedAt(r)) IN ErrorText(calls[r][i].op, calls[r][i].out)
\* Where the first failure sits in the history (the fetch, for extraction).
OriginalFailureAt(r) == IF ExtractionFailed(r) THEN 1 ELSE Min(FailedAt(r))

\* The provisioned state of certificate c with device identity d.
PolicyAttached(c, d) ==
    /\ PolicyName(d) \in DOMAIN policies
    /\ <<PolicyName(d), CertificateArn(c)>> \in policyTargets
ThingAttached(c, d) ==
    /\ ThingName(d) \in DOMAIN things
    /\ <<ThingName(d), CertificateArn(c)>> \in thingPrincipals
Provisioned(c, d) ==
    /\ PolicyAttached(c, d)
    /\ ThingAttached(c, d)
    /\ certStatus[c] = "ACTIVE"

\* ================================================================ claims

\* C1 (as claimed): in every run, update_certificate ACTIVE is issued only
\* after that run's attach_policy and attach_thing_principal have succeeded.
C1_ActivationAfterProvisioning ==
    \A r \in Runs : \A i \in Idx(r) :
        IsCall(calls[r][i], "update_certificate", "ACTIVE") =>
            /\ \E j \in 1..(i-1) :
                 calls[r][j].op = "attach_policy" /\ calls[r][j].out = "ok"
            /\ \E j \in 1..(i-1) :
                 calls[r][j].op = "attach_thing_principal" /\ calls[r][j].out = "ok"

\* C2 (as claimed): when a run for a registered certificate has ended and no
\* other run has started, the certificate is ACTIVE if its identity was
\* found by the lookup and REVOKED otherwise.
C2_StatusReflectsLookup ==
    \A r \in Runs :
        (/\ Done(r) /\ Known(r)
         /\ \A q \in Runs \ {r} : ~Started(q)) =>
            certStatus[certificate_id(r)] = IF Found(r) THEN "ACTIVE" ELSE "REVOKED"

\* C2 (amended): a certificate is ACTIVE only if a run for it found its
\* identity in the whitelist; a run that returns 200 found the identity; and
\* a run that returns 403, or 500 after its compensating revoke succeeded,
\* leaves the certificate REVOKED at its return.
C2_ActiveOnlyIfFound ==
    /\ \A c \in CertIds :
         certStatus[c] = "ACTIVE" =>
             \E r \in Runs : Known(r) /\ certificate_id(r) = c /\ Found(r)
    /\ \A r \in Runs : Returned(r, 200) => Found(r)
C2_RevokedAtReturn ==
    \A r \in Runs :
        (/\ ReturnsNow(r) /\ Known(r)
         /\ result'[r].statusCode \in {403, 500}
         /\ LastCall(r)'.out = "ok") =>
            certStatus'[certificate_id(r)] = "REVOKED"
\* C2 (amended), both parts: the invariant and the status at the return.
C2_Amended == []C2_ActiveOnlyIfFound /\ [][C2_RevokedAtReturn]_vars
\* Witness: a run found the identity, failed while provisioning and
\* returned 500, leaving the certificate REVOKED although it was found.
C2_Witness ==
    \E r \in Runs :
        /\ Returned(r, 500) /\ Known(r) /\ Found(r)
        /\ LastCall(r).out = "ok"
        /\ certStatus[certificate_id(r)] = "REVOKED"

\* C3 (as claimed): two runs for the same certificate of a whitelisted
\* device, with no failure injected, both return 200 and leave the
\* certificate ACTIVE with exactly its policy and its thing attached.
C3_DuplicateRunsConverge ==
    \A r, q \in Runs :
        (/\ r # q /\ Done(r) /\ Done(q)
         /\ Known(r) /\ event[q] = event[r] /\ Found(r)
         /\ faults = 0
         /\ \A o \in Runs \ {r, q} : ~Started(o)) =>
            LET c == certificate_id(r)
                d == device_id[r] IN
            /\ Returned(r, 200) /\ Returned(q, 200)
            /\ Provisioned(c, d)
            /\ {t \in policyTargets : t[2] = CertificateArn(c)}
                 = {<<PolicyName(d), CertificateArn(c)>>}
            /\ {t \in thingPrincipals : t[2] = CertificateArn(c)}
                 = {<<ThingName(d), CertificateArn(c)>>}

\* C4: a run in which a step fails after the certificate id is known ends
\* with update_certificate REVOKED as its last call, issued after the
\* failure, returns 500 with the first failure's text, and raises nothing.
C4_FailureRevokesAndReports500 ==
    \A r \in Runs :
        /\ (Done(r) /\ HasCertId(r)) => ~Escaped(r)
        /\ (Done(r) /\ Failing(r)) =>
            /\ Len(calls[r]) > OriginalFailureAt(r)
            /\ IsCall(LastCall(r), "update_certificate", "REVOKED")
            /\ result[r] = [statusCode |-> 500, body |-> "Error: " \o OriginalError(r)]
\* Witness: a run failed in the thing step and has returned.
C4_Witness ==
    \E r \in Runs :
        /\ Done(r) /\ Failing(r)
        /\ \E i \in FailedAt(r) : calls[r][i].op = "create_thing"

\* C5 (as claimed): a run whose whitelist lookup failed issues no ACTIVE
\* update, ends with the certificate REVOKED and returns 500.
C5_LookupFailureRevokes ==
    \A r \in Runs :
        (/\ Done(r) /\ LookupFailed(r)
         /\ \A q \in Runs \ {r} : ~Started(q)) =>
            /\ ~IssuedActive(r)
            /\ certStatus[certificate_id(r)] = "REVOKED"
            /\ Returned(r, 500)

\* C5 (amended): a run whose whitelist lookup failed never issues an ACTIVE
\* update, ends with a revoke attempt and returns 500 (never 403 or 200);
\* when that revoke call succeeds the certificate is REVOKED at the return.
C5_LookupFailureIs500 ==
    \A r \in Runs :
        LookupFailed(r) =>
            /\ ~IssuedActive(r)
            /\ Done(r) =>
                /\ IsCall(LastCall(r), "update_certificate", "REVOKED")
                /\ Returned(r, 500)
C5_RevokedAtReturn ==
    \A r \in Runs :
        (ReturnsNow(r) /\ LookupFailed(r)' /\ LastCall(r)'.out = "ok") =>
            certStatus'[certificate_id(r)] = "REVOKED"
\* C5 (amended), both parts: the invariant and the status at the return.
C5_Amended == []C5_LookupFailureIs500 /\ [][C5_RevokedAtReturn]_vars
\* Witness: the lookup failed, the revoke succeeded, the run returned 500.
C5_Witness ==
    \E r \in Runs :
        /\ LookupFailed(r) /\ Returned(r, 500)
        /\ LastCall(r).out = "ok"
        /\ certStatus[certificate_id(r)] = "REVOKED"

C6_NotFoundRevokes ==
    \A r \in Runs :
        NotFound(r) =>
            /\ ~IssuedActive(r)
            /\ Len(calls[r]) >= 3 =>
                /\ IsCall(calls[r][3], "update_certificate", "REVOKED")
                /\ calls[r][3].out = "ok" =>
                     result[r] = [statusCode |-> 403,
                                  body |-> "Device " \o device_id[r] \o " is not authorized"]
            /\ Done(r) => Len(calls[r]) >= 3
C6_RevokedAtReturn403 ==
    \A r \in Runs :
        (ReturnsNow(r) /\ NotFound(r) /\ result'[r].statusCode = 403) =>
            certStatus'[certificate_id(r)] = "REVOKED"
C8_AllOkReturns200 ==
    \A r \in Runs :
        (Done(r) /\ Known(r) /\ Found(r) /\ NoFailure(r)) => Returned(r, 200)
C8_ProvisionedAtReturn200 ==
    \A r \in Runs :
        (/\ ReturnsNow(r) /\ Known(r)
         /\ result'[r].statusCode = 200) =>
            Provisioned(certificate_id(r), device_id[r])'
\* C8 (as claimed), both halves.
C8_Returns200Provisioned == []C8_AllOkReturns200 /\ [][C8_ProvisionedAtReturn200]_vars

\* C9: the allow path run twice in a row for one certificate.  The second
\* run (no failure injected into it) has no failing call, calls neither
\* create_policy nor create_thing, returns the same 200 response, changes
\* nothing in the services, and leaves exactly one policy attachment and
\* one thing principal for the certificate.
SecondRun(r) ==
    /\ r > 1 /\ Known(r)
    /\ event[r] = event[r-1] /\ Returned(r-1, 200)
    /\ \A i \in Idx(r) : calls[r][i].out # "fault"
C9_SecondRunClean ==
    \A r \in Runs :
        SecondRun(r) =>
            /\ \A i \in Idx(r) :
                 /\ calls[r][i].out = "ok"
                 /\ calls[r][i].op \notin {"create_policy", "create_thing"}
            /\ Done(r) => Returned(r, 200) /\ result[r] = result[r-1]
            /\ (Done(r) /\ \A q \in Runs : q > r => ~Started(q)) =>
                 LET c == certificate_id(r)
                     d == device_id[r] IN
                 /\ Provisioned(c, d)
                 /\ {t \in policyTargets : t[2] = CertificateArn(c)}
                      = {<<PolicyName(d), CertificateArn(c)>>}
                 /\ {t \in thingPrincipals : t[2] = CertificateArn(c)}
                      = {<<ThingName(d), CertificateArn(c)>>}
C9_SecondRunChangesNothing ==
    \A r \in Runs :
        (SecondRun(r)' /\ calls'[r] # calls[r]) => service' = service
\* C9, both parts: the second run's calls and result, and its effect.
C9_IdempotentRetry == []C9_SecondRunClean /\ [][C9_SecondRunChangesNothing]_vars
\* Witness: a second run for the same certificate has returned 200.
C9_Witness ==
    \E r \in Runs : SecondRun(r) /\ Returned(r, 200) /\ Len(calls[r]) = 8

\* C10: when the revoke of the except clause fails, the run still returns
\* 500 with the text of the first failure, and nothing is raised.
C10_RevokeFailureKeepsOriginalError ==
    \A r \in Runs :
        (/\ Done(r) /\ Failing(r)
         /\ IsCall(LastCall(r), "update_certificate", "REVOKED")
         /\ LastCall(r).out # "ok") =>
            /\ Len(calls[r]) > OriginalFailureAt(r)
            /\ e[r] = OriginalError(r)
            /\ result[r] = [statusCode |-> 500, body |-> "Error: " \o OriginalError(r)]
            /\ ~Escaped(r)
\* Witness: the lookup failed, then the revoke failed; the body names the lookup.
C10_Witness ==
    \E r \in Runs :
        /\ Done(r) /\ LookupFailed(r)
        /\ LastCall(r).op = "update_certificate" /\ LastCall(r).out = "fault"
        /\ result[r].body = "Error: ServiceUnavailable: get_item"

\* C11 (as claimed): a run whose event carries no certificateId ends at once
\* with a response for the caller and issues no external call.
C11_MissingIdReportedAsResult ==
    \A r \in Runs :
        (Started(r) /\ ~HasCertId(r)) =>
            /\ calls[r] = <<>>
            /\ Done(r)
            /\ "statusCode" \in DOMAIN result[r]

\* C12 (as claimed): a run that has not returned can take a step, and a run
\* that has ended has returned one response whose statusCode is 200, 403 or
\* 500.
C12_EveryRunYieldsOneResult ==
    \A r \in Runs :
        /\ (Started(r) /\ ~Done(r)) => ENABLED Step(r)
        /\ Done(r) =>
            /\ DOMAIN result[r] = {"statusCode", "body"}
            /\ result[r].statusCode \in {200, 403, 500}

\* C13: a failure in the policy step (the STS call, get_policy other than
\* not-found, create_policy, attach_policy) aborts the run: it issues no
\* thing call, never returns 200, and ends with the revoke and 500; a
\* failure in the thing step likewise ends with the revoke and 500.
PolicyOps == {"get_caller_identity", "get_policy", "create_policy", "attach_policy"}
ThingOps == {"describe_thing", "create_thing", "attach_thing_principal"}
FailedIn(r, ops) == \E i \in FailedAt(r) : calls[r][i].op \in ops
C13_ProvisioningFailureAborts ==
    \A r \in Runs :
        /\ FailedIn(r, PolicyOps) =>
             \A i \in Idx(r) : calls[r][i].op \notin ThingOps
        /\ FailedIn(r, PolicyOps \cup ThingOps) =>
            /\ ~Returned(r, 200)
            /\ pc[r] \in {"except", "done"}
            /\ Done(r) =>
                /\ IsCall(LastCall(r), "update_certificate", "REVOKED")
                /\ Returned(r, 500)
\* Witness: attach_policy failed and the run returned 500.
C13_Witness ==
    \E r \in Runs :
        /\ Returned(r, 500)
        /\ \E i \in FailedAt(r) : calls[r][i].op = "attach_policy"

\* C14: every policy the handler has created is named DevicePolicy_d for a
\* device identity d and has exactly three statements whose resources are
\* client/d, topic/devices/d/* and topicfilter/devices/d/*; every policy
\* attachment joins a certificate with the policy named for that
\* certificate's own identity; so no certificate holds a policy with a
\* resource of another device's namespace.
DeviceIds == {"dev-7", "dev-42"}
IdentityOf(c) == extract_device_id_from_certificate(CertificatePem[c])
ScopedResources(d) ==
    << {"arn:aws:iot:" \o Region \o ":" \o AccountId \o ":client/" \o d},
       {"arn:aws:iot:" \o Region \o ":" \o AccountId \o ":topic/devices/" \o d \o "/*"},
       {"arn:aws:iot:" \o Region \o ":" \o AccountId \o ":topicfilter/devices/" \o d \o "/*"} >>
ResourcesOf(doc) == UNION {doc[i].Resource : i \in DOMAIN doc}
C14_PoliciesScopedToOwnDevice ==
    /\ \A name \in DOMAIN policies :
         \E d \in DeviceIds :
            /\ name = "DevicePolicy_" \o d
            /\ Len(policies[name]) = 3
            /\ \A i \in 1..3 : policies[name][i].Resource = ScopedResources(d)[i]
    /\ \A t \in policyTargets :
         \E c \in CertIds :
            /\ t[2] = CertificateArn(c)
            /\ IdentityOf(c).ok
            /\ t[1] = "DevicePolicy_" \o IdentityOf(c).value
    /\ \A t \in policyTargets : \A c \in CertIds : \A d \in DeviceIds :
         (t[2] = CertificateArn(c) /\ IdentityOf(c).ok /\ d # IdentityOf(c).value) =>
             ResourcesOf(policies[t[1]]) \cap ResourcesOf([i \in 1..3 |->
                 [Resource |-> ScopedResources(d)[i]]]) = {}
\* Witness: both devices are registered, each certificate with its own policy.
C14_Witness ==
    /\ PolicyAttached("c1", "dev-7") /\ PolicyAttached("c3", "dev-42")
    /\ Cardinality(DOMAIN policies) = 2
    /\ Cardinality(policyTargets) = 2

\* C15: once a run has fetched its certificate, its device_id is the
\* subject's serialNumber when there is one (also beside a CN), else the
\* CN when there is one, else the run is in the error path with no
\* device_id; runs for the same certificate extract the same identity; and
\* the step that extracts changes nothing in the services.
Fetched(r) == Known(r) /\ Len(calls[r]) >= 1 /\ calls[r][1].out = "ok"
C15_Precedence ==
    \A r \in Runs :
        Fetched(r) =>
            LET pem == CertificatePem[certificate_id(r)]
                subject == pem.subject IN
            IF pem.wellFormed /\ "serialNumber" \in DOMAIN subject
            THEN device_id[r] = subject["serialNumber"] /\ pc[r] # "describe_certificate"
            ELSE IF pem.wellFormed /\ "CN" \in DOMAIN subject
            THEN device_id[r] = subject["CN"] /\ pc[r] # "describe_certificate"
            ELSE /\ device_id[r] = None
                 /\ e[r] # None
                 /\ pc[r] \in {"except", "done"}
                 /\ \A i \in Idx(r) : calls[r][i].op # "get_item"
C15_Repeatable ==
    \A r, q \in Runs :
        (Fetched(r) /\ Fetched(q) /\ event[r] = event[q]) => device_id[r] = device_id[q]
C15_ExtractionIsPure ==
    \A r \in Runs :
        (pc[r] = "describe_certificate" /\ pc'[r] # pc[r]) => service' = service
\* C15, all parts.
C15_IdentityExtraction ==
    /\ [](C15_Precedence /\ C15_Repeatable)
    /\ [][C15_ExtractionIsPure]_vars
\* Witness: c1 (serialNumber beside a CN) and c2 (CN only) have both been
\* extracted, and both gave dev-7.
C15_Witness ==
    \E r, q \in Runs :
        /\ Fetched(r) /\ certificate_id(r) = "c1" /\ device_id[r] = "dev-7"
        /\ Fetched(q) /\ certificate_id(q) = "c2" /\ device_id[q] = "dev-7"

\* C16: a run that has returned 500 has not left the certificate ACTIVE:
\* if it activated the certificate, a later update of its own took the
\* status to REVOKED.
LeftActive(r) ==
    \E i \in Idx(r) :
        /\ IsCall(calls[r][i], "update_certificate", "ACTIVE")
        /\ calls[r][i].out = "ok"
        /\ \A j \in Idx(r) :
            j > i => ~(IsCall(calls[r][j], "update_certificate", "REVOKED")
                       /\ calls[r][j].out = "ok")
C16_Never500WithActive ==
    \A r \in Runs : Returned(r, 500) => ~LeftActive(r)

\* C17: create_policy directly follows a get_policy of the same run that
\* answered not-found for the same name, and create_thing a describe_thing
\* likewise; a probe that found the resource is followed by the attach and
\* by no create; the handler calls no operation that modifies or deletes a
\* policy or a thing; and a policy or thing, once there, stays as it is.
ProbeOf(op) == IF op = "create_policy" THEN "get_policy" ELSE "describe_thing"
AttachOf(op) == IF op = "get_policy" THEN "attach_policy" ELSE "attach_thing_principal"
HandlerOps ==
    {"describe_certificate", "get_item", "update_certificate", "get_caller_identity",
     "get_policy", "create_policy", "attach_policy",
     "describe_thing", "create_thing", "attach_thing_principal"}
C17_CreateOnlyAfterNotFound ==
    \A r \in Runs : \A i \in Idx(r) :
        LET call == calls[r][i] IN
        /\ call.op \in HandlerOps
        /\ call.op \in {"create_policy", "create_thing"} =>
            /\ i > 1
            /\ calls[r][i - 1] = [op |-> ProbeOf(call.op), arg |-> call.arg, out |-> "notfound"]
        /\ (call.op \in {"get_policy", "describe_thing"} /\ call.out = "ok" /\ i < Len(calls[r])) =>
            /\ calls[r][i + 1].op = AttachOf(call.op)
            /\ calls[r][i + 1].arg = call.arg
C17_ExistingKept ==
    /\ \A n \in DOMAIN policies : n \in DOMAIN policies' /\ policies'[n] = policies[n]
    /\ \A n \in DOMAIN things : n \in DOMAIN things' /\ things'[n] = things[n]
\* C17, all parts.
C17_CreateIfAbsent ==
    /\ []C17_CreateOnlyAfterNotFound
    /\ [][C17_ExistingKept]_vars
\* Witness: one run created the policy and the thing, a later run found
\* both, reused them and registered.
C17_Witness ==
    \E r, q \in Runs :
        /\ \E i \in Idx(r) : calls[r][i].op = "create_policy" /\ calls[r][i].out = "ok"
        /\ \E i \in Idx(r) : calls[r][i].op = "create_thing" /\ calls[r][i].out = "ok"
        /\ \E i \in Idx(q) : calls[q][i].op = "get_policy" /\ calls[q][i].out = "ok"
        /\ \E i \in Idx(q) : calls[q][i].op = "describe_thing" /\ calls[q][i].out = "ok"
        /\ Returned(q, 200)

\* C18: a run issues update_certificate ACTIVE only as its third call, after
\* its describe_certificate succeeded, an identity was extracted from that
\* certificate, and its get_item for that identity succeeded and returned
\* an entry.
C18_ActiveOnlyAfterPositiveLookup ==
    \A r \in Runs : \A i \in Idx(r) :
        IsCall(calls[r][i], "update_certificate", "ACTIVE") =>
            /\ i = 3
            /\ calls[r][1] = [op |-> "describe_certificate", arg |-> certificate_id(r), out |-> "ok"]
            /\ certificate_id(r) \in CertIds
            /\ CertificatePem[certificate_id(r)].wellFormed
            /\ device_id[r] \in
                   {CertificatePem[certificate_id(r)].subject[a] :
                        a \in DOMAIN CertificatePem[certificate_id(r)].subject}
            /\ calls[r][2] = [op |-> "get_item", arg |-> device_id[r], out |-> "ok"]
            /\ device_id[r] \in whitelist
\* Witness: a run has activated its certificate while another, whose lookup
\* found nothing, has revoked without ever issuing ACTIVE.
C18_Witness ==
    \E r, q \in Runs :
        /\ \E i \in Idx(r) : IsCall(calls[r][i], "update_certificate", "ACTIVE")
                              /\ calls[r][i].out = "ok"
        /\ Done(q) /\ NotFound(q)

\* C19: a run whose lookup returned no entry (the denied branch, or a
\* failure of the fetch, the extraction or the lookup) only ever calls
\* describe_certificate, get_item and update_certificate REVOKED, and each
\* of its steps leaves policies, things and both kinds of attachment as
\* they were and changes no certificate status except its own, to REVOKED.
Unauthorized(r) == HasCertId(r) /\ ~Found(r)
Steps(r) == pc'[r] # pc[r] \/ calls'[r] # calls[r]
C19_OnlyRevokeCalls ==
    \A r \in Runs : \A i \in Idx(r) :
        Unauthorized(r) =>
            \/ calls[r][i].op \in {"describe_certificate", "get_item"}
            \/ IsCall(calls[r][i], "update_certificate", "REVOKED")
C19_StepWritesOnlyRevoked ==
    \A r \in Runs :
        (Steps(r) /\ Unauthorized(r)') =>
            /\ UNCHANGED <<policies, policyTargets, things, thingPrincipals>>
            /\ \A c \in CertIds :
                certStatus'[c] # certStatus[c] =>
                    c = certificate_id(r) /\ certStatus'[c] = "REVOKED"
\* C19, both parts.
C19_DeniedRunWritesOnlyRevoked ==
    /\ []C19_OnlyRevokeCalls
    /\ [][C19_StepWritesOnlyRevoked]_vars
\* Witness: one run was denied (403) and one failed at the lookup (500);
\* both certificates are REVOKED and nothing was provisioned.
C19_Witness ==
    \E r, q \in Runs :
        /\ NotFound(r) /\ Returned(r, 403)
        /\ LookupFailed(q) /\ Returned(q, 500)
        /\ certStatus[certificate_id(r)] = "REVOKED"
        /\ certStatus[certificate_id(q)] = "REVOKED"
        /\ DOMAIN policies = {} /\ DOMAIN things = {}
        /\ policyTargets = {} /\ thingPrincipals = {}

\* C20: every step of a run for certificate c changes no certificate status
\* but c's, adds no attachment but to c's own arn and removes none; and a
\* certificate that is ACTIVE or REVOKED was set so by a run for that very
\* certificate. Runs for c1 and c2, which share the identity dev-7 and so
\* the policy and the thing, interleave freely.
C20_StatusWrittenByOwnRun ==
    \A c \in CertIds :
        certStatus[c] # "PENDING_ACTIVATION" =>
            \E r \in Runs :
                /\ HasCertId(r) /\ certificate_id(r) = c
                /\ \E i \in Idx(r) :
                    /\ IsCall(calls[r][i], "update_certificate", certStatus[c])
                    /\ calls[r][i].out = "ok"
C20_StepTouchesOwnCertificate ==
    \A r \in Runs :
        (Steps(r) /\ "certificateId" \in DOMAIN event'[r]) =>
            LET c == event'[r]["certificateId"] IN
            /\ \A x \in CertIds : certStatus'[x] # certStatus[x] => x = c
            /\ policyTargets \subseteq policyTargets'
            /\ thingPrincipals \subseteq thingPrincipals'
            /\ \A t \in policyTargets' \ policyTargets : t[2] = CertificateArn(c)
            /\ \A t \in thingPrincipals' \ thingPrincipals : t[2] = CertificateArn(c)
\* C20, both parts.
C20_RunsTouchOwnCertificateOnly ==
    /\ []C20_StatusWrittenByOwnRun
    /\ [][C20_StepTouchesOwnCertificate]_vars
\* Witness: c1 and c2 share dev-7; the run for c1 registered it, the run
\* for c2 failed and revoked c2, and c1 is still ACTIVE and attached.
C20_Witness ==
    \E r, q \in Runs :
        /\ HasCertId(r) /\ certificate_id(r) = "c1" /\ Returned(r, 200)
        /\ HasCertId(q) /\ certificate_id(q) = "c2" /\ Returned(q, 500)
        /\ device_id[r] = device_id[q]
        /\ certStatus["c2"] = "REVOKED"
        /\ certStatus["c1"] = "ACTIVE"
        /\ Provisioned("c1", "dev-7")

====
